---------------------------- MODULE Spec2Model ----------------------------
(***************************************************************************)
(* The San Jose fire-incident dashboard (src/app.py): one Streamlit script *)
(* that runs top to bottom on every interaction.  A run is modelled as a   *)
(* program counter walking the script; the only state that survives a run  *)
(* is the st.cache_data entry of load_data() and the sidebar widgets'      *)
(* session state.  The warehouse, the secrets store and the geocoding      *)
(* service are the environment: what they answer is chosen at each call.   *)
(***************************************************************************)
EXTENDS Integers, Sequences, FiniteSets, TLC

VARIABLES
    pc,               \* position of the current script run
    cache,            \* st.cache_data entry of load_data(): None or Some(table)
    queries,          \* warehouse queries issued by this process
    session_state,    \* the two multiselects' widget state: None or Some([cat, month])
    df,               \* app.py:40
    category_filter,  \* app.py:46
    month_filter,     \* app.py:51
    df_filtered,      \* app.py:57
    rendered,         \* the sections written to the page in this run, in order
    bar_chart,        \* bars drawn by countplot, app.py:72
    line_chart,       \* points drawn by the line plot, app.py:84
    top_streets,      \* app.py:93
    df_top_streets,   \* app.py:115
    geocode_result,   \* app.py:106, the latest answer of gmaps.geocode
    requests,         \* addresses sent to gmaps.geocode in this run, in order
    coords,           \* what Series.apply has collected from get_lat_lon so far
    markers,          \* markers added to city_map, app.py:127
    frames,           \* iframes embedded in this run, app.py:147
    error,            \* the st.error message of this run
    exception         \* the uncaught exception that ended this run

vars == <<pc, cache, queries, session_state, df, category_filter, month_filter,
          df_filtered, rendered, bar_chart, line_chart, top_streets,
          df_top_streets, geocode_result, requests, coords, markers, frames,
          error, exception>>

-----------------------------------------------------------------------------
(* Bounds of the model *)

\* longest table the warehouse returns
MaxRows == 9
\* number of places in the incident log a returned table may start at
MaxStart == 8
\* warehouse queries that may fail before the model lets the next one succeed
MaxFailedQueries == 1

(* Program constants *)

\* value_counts().head(5), app.py:93 and app.py:117
TopN == 5

-----------------------------------------------------------------------------
(* Python's None, and an optional value *)

None == <<>>
Some(v) == <<v>>

\* a missing Street_Name as the warehouse returns it (NULL)
NULL == "<NA>"

Min(a, b) == IF a < b THEN a ELSE b

\* the elements of a set of integers in ascending order
RECURSIVE Ascending(_)
Ascending(S) ==
    IF S = {} THEN <<>>
    ELSE LET m == CHOOSE x \in S : \A y \in S : x <= y
         IN  <<m>> \o Ascending(S \ {m})

Column(table, name) == [i \in 1..Len(table) |-> table[i][name]]

-----------------------------------------------------------------------------
(* The warehouse: san_jose_fire_incidents.fire_incidents_2024 *)

Ts(y, m, d) == [year |-> y, month |-> m, day |-> d]

Incident(t, c, s) ==
    [Date_Time_Of_Event |-> t, Final_Incident_Category |-> c, Street_Name |-> s]

\* the incident log the returned tables are cut from
IncidentLog ==
    << Incident(Ts(2024, 1, 5),   "Vehicle Fire",   "STORY RD"),
       Incident(Ts(2024, 1, 20),  "Structure Fire", "ALUM ROCK AV"),
       Incident(Ts(2024, 2, 3),   "Structure Fire", "MONTEREY RD"),
       Incident(Ts(2024, 1, 9),   "Vehicle Fire",   "TULLY RD"),
       Incident(Ts(2024, 11, 1),  "Structure Fire", "SENTER RD"),
       Incident(Ts(2024, 2, 14),  "Vehicle Fire",   "KING RD"),
       Incident(Ts(2024, 2, 27),  "Structure Fire", "KING RD"),
       Incident(Ts(2024, 1, 11),  "Structure Fire", NULL),
       Incident(Ts(2024, 11, 15), "Structure Fire", "CAPITOL EX"),
       Incident(Ts(2024, 11, 30), "Vehicle Fire",   "KING RD"),
       Incident(Ts(2024, 2, 8),   "Structure Fire", "ALUM ROCK AV") >>

LogRow(k) == IncidentLog[((k - 1) % Len(IncidentLog)) + 1]

\* a query result: n consecutive incidents of the log, from the s-th on
QueryResult(s, n) == [i \in 1..n |-> LogRow(s + i - 1)]

QueryResults == { QueryResult(s, n) : s \in 1..MaxStart, n \in 0..MaxRows }

-----------------------------------------------------------------------------
(* load_data *)

\* dt.to_period("M"): the calendar month of a timestamp
ToPeriodM(t) == [year |-> t.year, month |-> t.month]

\* str(Period) of a monthly period: "2024-01"
PeriodStr(p) ==
    ToString(p.year) \o "-" \o (IF p.month < 10 THEN "0" ELSE "") \o ToString(p.month)

\* the order of monthly periods
PeriodOrdinal(p) == p.year * 12 + (p.month - 1)

\* the body of load_data on a query result: the frame keeps the result's
\* columns, gets a RangeIndex and the derived Month column
ToDataFrame(result) ==
    [i \in 1..Len(result) |->
        [index |-> i - 1,
         Date_Time_Of_Event |-> result[i].Date_Time_Of_Event,
         Final_Incident_Category |-> result[i].Final_Incident_Category,
         Street_Name |-> result[i].Street_Name,
         Month |-> ToPeriodM(result[i].Date_Time_Of_Event)]]

-----------------------------------------------------------------------------
(* The filter *)

\* Series.unique() as the option set of a multiselect
Unique(col) == { col[i] : i \in 1..Len(col) }

MonthStrings(table) == [i \in 1..Len(table) |-> PeriodStr(table[i].Month)]

\* Series.isin: a boolean mask
Isin(col, values) == [i \in 1..Len(col) |-> col[i] \in values]

\* a bug MaskAnd could have: the two masks joined with | instead of &
MaskOr(a, b) == [i \in 1..Len(a) |-> a[i] \/ b[i]]

\* mask & mask
MaskAnd(a, b) == [i \in 1..Len(a) |-> a[i] /\ b[i]]

\* df[mask]: the rows whose mask is True, in order, index labels kept
BoolIndex(table, mask) ==
    LET keep == Ascending({ i \in 1..Len(table) : mask[i] })
    IN  [k \in 1..Len(keep) |-> table[keep[k]]]

\* a bug FilterRows could have: the Month column compared without
\* astype(str), so that no Period equals a selected string
FilterRowsNoAstype(table, cats, months) ==
    BoolIndex(table,
              MaskAnd(Isin(Column(table, "Final_Incident_Category"), cats),
                      [i \in 1..Len(table) |-> FALSE]))

FilterRows(table, cats, months) ==
    BoolIndex(table,
              MaskAnd(Isin(Column(table, "Final_Incident_Category"), cats),
                      Isin(MonthStrings(table), months)))

-----------------------------------------------------------------------------
(* value_counts and groupby *)

CountOf(col, v) == Cardinality({ i \in 1..Len(col) : col[i] = v })

\* positions of the first occurrence of each non-null value
FirstSeen(col) ==
    { i \in 1..Len(col) : col[i] # NULL /\ \A j \in 1..(i - 1) : col[j] # col[i] }

\* the first-seen positions ordered by count, highest first; equal counts keep
\* their first-seen order
RECURSIVE ByCountDesc(_, _)
ByCountDesc(col, S) ==
    IF S = {} THEN <<>>
    ELSE LET best == CHOOSE i \in S : \A j \in S :
                        \/ CountOf(col, col[i]) > CountOf(col, col[j])
                        \/ CountOf(col, col[i]) = CountOf(col, col[j]) /\ i <= j
         IN  <<best>> \o ByCountDesc(col, S \ {best})

\* a bug ValueCounts could have: value_counts(sort=False), first-seen order
ValueCountsUnsorted(col) ==
    LET order == Ascending(FirstSeen(col))
    IN  [k \in 1..Len(order) |->
            [value |-> col[order[k]], count |-> CountOf(col, col[order[k]])]]

\* Series.value_counts(): nulls dropped, sorted by count descending
ValueCounts(col) ==
    LET order == ByCountDesc(col, FirstSeen(col))
    IN  [k \in 1..Len(order) |->
            [value |-> col[order[k]], count |-> CountOf(col, col[order[k]])]]

\* .head(n)
HeadN(s, n) == SubSeq(s, 1, Min(n, Len(s)))

\* groupby('Month').size(): one entry per month of the table, months ascending
GroupByMonthSize(table) ==
    LET ords  == { PeriodOrdinal(table[i].Month) : i \in 1..Len(table) }
        order == Ascending(ords)
        MonthOf(o) == (CHOOSE i \in 1..Len(table) :
                          PeriodOrdinal(table[i].Month) = o)
    IN  [k \in 1..Len(order) |->
            [month |-> table[MonthOf(order[k])].Month,
             size  |-> Cardinality({ i \in 1..Len(table) :
                          PeriodOrdinal(table[i].Month) = order[k] })]]

-----------------------------------------------------------------------------
(* Geocoding *)

Candidate(lat, lng) == [lat |-> lat, lng |-> lng]

\* what gmaps.geocode may do: raise, or return an ordered candidate list
\* (coordinates in 1/10000 degree)
GeocodeAnswers ==
    { [raised |-> TRUE,  candidates |-> <<>>],
      [raised |-> FALSE, candidates |-> <<>>],
      [raised |-> FALSE, candidates |-> <<Candidate(373382, -1218863)>>],
      [raised |-> FALSE, candidates |-> <<Candidate(373382, -1218863),
                                          Candidate(373541, -1219552)>>] }

\* f"{street_name}, {city}, {state}" with the default city and state
Address(street_name) == street_name \o ", San Jose, CA"

\* a bug GetLatLon could have: the last candidate taken instead of the first
GetLatLonLast(answer) ==
    IF answer.raised THEN <<None, None>>
    ELSE IF answer.candidates # <<>>
         THEN <<Some(answer.candidates[Len(answer.candidates)].lat),
                Some(answer.candidates[Len(answer.candidates)].lng)>>
         ELSE <<None, None>>

\* get_lat_lon on the answer of gmaps.geocode: the first candidate's
\* coordinates; (None, None) for no candidate and for any exception
GetLatLon(answer) ==
    IF answer.raised THEN <<None, None>>
    ELSE IF answer.candidates # <<>>
         THEN <<Some(answer.candidates[1].lat), Some(answer.candidates[1].lng)>>
         ELSE <<None, None>>

\* a bug TopStreetsFrame could have: the counts taken in ascending order
\* (value_counts(ascending=True)) while the names are in descending order
TopStreetsFrameAscending(names, table) ==
    LET all    == ValueCounts(Column(table, "Street_Name"))
        counts == HeadN([k \in 1..Len(all) |-> all[Len(all) + 1 - k]], TopN)
    IN  [k \in 1..Len(names) |->
            [Street_Name |-> names[k], Incident_Count |-> counts[k].count]]

\* the frame of app.py:115: names and counts, each from its own
\* value_counts().head(5) of the filtered view
TopStreetsFrame(names, table) ==
    LET counts == HeadN(ValueCounts(Column(table, "Street_Name")), TopN)
    IN  [k \in 1..Len(names) |->
            [Street_Name |-> names[k], Incident_Count |-> counts[k].count]]

\* df_top_streets[['Latitude', 'Longitude']] = <the applied pairs>
WithCoords(frame, pairs) ==
    [k \in 1..Len(frame) |->
        [Street_Name    |-> frame[k].Street_Name,
         Incident_Count |-> frame[k].Incident_Count,
         Latitude       |-> pairs[k][1],
         Longitude      |-> pairs[k][2]]]

\* dropna(): the rows with no missing cell
IsComplete(row) == row.Latitude # None /\ row.Longitude # None
DropNa(frame) == SelectSeq(frame, IsComplete)

\* folium.Marker of one row
Marker(row) ==
    [location |-> <<row.Latitude[1], row.Longitude[1]>>,
     popup    |-> "Street: " \o row.Street_Name \o " - "
                  \o ToString(row.Incident_Count) \o " Incidents"]

-----------------------------------------------------------------------------
(* The embedded reports, app.py:140 *)

Report(title, url) == [title |-> title, url |-> url]

looker_reports ==
    << Report("Most Common Fire Incident Categories",
              "https://lookerstudio.google.com/embed/reporting/df0ea516-d86d-4e9d-a762-dc37703c2a70/page/Dqv4E"),
       Report("Fire Incidents Over Time",
              "https://lookerstudio.google.com/embed/reporting/e6348672-9e65-4ceb-ac35-01ebe375dc3d/page/BBx4E"),
       Report("Street Areas with High Incidents",
              "https://lookerstudio.google.com/embed/reporting/64bb961b-b8dd-4006-bba7-374c60612e97/page/2by4E"),
       Report("Incidents Locations on Map",
              "https://lookerstudio.google.com/embed/reporting/c7a8737e-7b0f-4b03-818c-7e1b3319bbe6/page/Qpx4E") >>

-----------------------------------------------------------------------------
(* One run of the script *)

\* the state a run starts from: nothing computed, nothing on the page
FreshRun ==
    /\ pc' = "credentials"
    /\ df' = <<>>
    /\ category_filter' = {}
    /\ month_filter' = {}
    /\ df_filtered' = <<>>
    /\ rendered' = <<>>
    /\ bar_chart' = <<>>
    /\ line_chart' = <<>>
    /\ top_streets' = <<>>
    /\ df_top_streets' = <<>>
    /\ geocode_result' = None
    /\ requests' = <<>>
    /\ coords' = <<>>
    /\ markers' = <<>>
    /\ frames' = <<>>
    /\ error' = None
    /\ exception' = None

Init ==
    /\ pc = "credentials"
    /\ cache = None
    /\ queries = 0
    /\ session_state = None
    /\ df = <<>>
    /\ category_filter = {}
    /\ month_filter = {}
    /\ df_filtered = <<>>
    /\ rendered = <<>>
    /\ bar_chart = <<>>
    /\ line_chart = <<>>
    /\ top_streets = <<>>
    /\ df_top_streets = <<>>
    /\ geocode_result = None
    /\ requests = <<>>
    /\ coords = <<>>
    /\ markers = <<>>
    /\ frames = <<>>
    /\ error = None
    /\ exception = None

\* app.py:15-25: the service-account descriptor is read and the client built;
\* any exception is reported with st.error and the run stops
LoadCredentials ==
    /\ pc = "credentials"
    /\ \E ok \in BOOLEAN :
          IF ok
          THEN /\ pc' = "load_data"
               /\ error' = error
          ELSE /\ pc' = "stopped"
               /\ error' = Some("Error loading Google Cloud credentials")
    /\ UNCHANGED <<cache, queries, session_state, df, category_filter,
                   month_filter, df_filtered, rendered, bar_chart, line_chart,
                   top_streets, df_top_streets, geocode_result, requests,
                   coords, markers, frames, exception>>

\* a bug LoadData could have: no @st.cache_data, every run queries
LoadDataUncached ==
    /\ pc = "load_data"
    /\ queries <= MaxFailedQueries + 1
    /\ queries' = queries + 1
    /\ \E result \in QueryResults :
          /\ cache' = Some(ToDataFrame(result))
          /\ df' = ToDataFrame(result)
          /\ pc' = "filters"
    /\ UNCHANGED <<session_state, category_filter, month_filter, df_filtered,
                   rendered, bar_chart, line_chart, top_streets,
                   df_top_streets, geocode_result, requests, coords, markers,
                   frames, error, exception>>

\* app.py:30-40: df = load_data() under @st.cache_data.  A hit returns the
\* stored frame; a miss runs the body, and stores what it returns.  A query
\* that raises stores nothing and ends the run.
LoadData ==
    /\ pc = "load_data"
    /\ IF cache # None
       THEN /\ df' = cache[1]
            /\ pc' = "filters"
            /\ UNCHANGED <<cache, queries, exception>>
       ELSE /\ queries' = queries + 1
            /\ \/ \E result \in QueryResults :
                     /\ cache' = Some(ToDataFrame(result))
                     /\ df' = ToDataFrame(result)
                     /\ pc' = "filters"
                     /\ exception' = exception
               \/ /\ queries < MaxFailedQueries
                  /\ exception' = Some("query failed")
                  /\ pc' = "failed"
                  /\ UNCHANGED <<cache, df>>
    /\ UNCHANGED <<session_state, category_filter, month_filter, df_filtered,
                   rendered, bar_chart, line_chart, top_streets,
                   df_top_streets, geocode_result, requests, coords, markers,
                   frames, error>>

\* the options of the two multiselects, app.py:48 and app.py:53
CategoryOptions(table) == Unique(Column(table, "Final_Incident_Category"))
MonthOptions(table) == Unique(MonthStrings(table))

\* app.py:45-60: the two multiselects return their widget state, which is the
\* default (every option) until the user has changed it; then the filter
Filters ==
    /\ pc = "filters"
    /\ LET selection ==
               IF session_state = None
               THEN [category |-> CategoryOptions(df), month |-> MonthOptions(df)]
               ELSE session_state[1]
       IN  /\ session_state' = Some(selection)
           /\ category_filter' = selection.category
           /\ month_filter' = selection.month
           /\ df_filtered' = FilterRows(df, selection.category, selection.month)
    /\ rendered' = Append(rendered, "sidebar")
    /\ pc' = "title"
    /\ UNCHANGED <<cache, queries, df, bar_chart, line_chart, top_streets,
                   df_top_streets, geocode_result, requests, coords, markers,
                   frames, error, exception>>

\* app.py:65
RenderTitle ==
    /\ pc = "title"
    /\ rendered' = Append(rendered, "title")
    /\ pc' = "bar_chart"
    /\ UNCHANGED <<cache, queries, session_state, df, category_filter,
                   month_filter, df_filtered, bar_chart, line_chart,
                   top_streets, df_top_streets, geocode_result, requests,
                   coords, markers, frames, error, exception>>

\* app.py:70-77: one bar per category of the filtered view, most frequent first
RenderBarChart ==
    /\ pc = "bar_chart"
    /\ bar_chart' = ValueCounts(Column(df_filtered, "Final_Incident_Category"))
    /\ rendered' = Append(rendered, "bar_chart")
    /\ pc' = "line_chart"
    /\ UNCHANGED <<cache, queries, session_state, df, category_filter,
                   month_filter, df_filtered, line_chart, top_streets,
                   df_top_streets, geocode_result, requests, coords, markers,
                   frames, error, exception>>

\* app.py:82-87: one point per month of the filtered view, months ascending
RenderLineChart ==
    /\ pc = "line_chart"
    /\ line_chart' = GroupByMonthSize(df_filtered)
    /\ rendered' = Append(rendered, "line_chart")
    /\ pc' = "top_streets"
    /\ UNCHANGED <<cache, queries, session_state, df, category_filter,
                   month_filter, df_filtered, bar_chart, top_streets,
                   df_top_streets, geocode_result, requests, coords, markers,
                   frames, error, exception>>

\* app.py:93: value_counts().head(5).index.tolist()
TopStreets(table) ==
    LET top == HeadN(ValueCounts(Column(table, "Street_Name")), TopN)
    IN  [k \in 1..Len(top) |-> top[k].value]

\* app.py:92-93
ComputeTopStreets ==
    /\ pc = "top_streets"
    /\ rendered' = Append(rendered, "top_streets_header")
    /\ top_streets' = TopStreets(df_filtered)
    /\ pc' = "maps_key"
    /\ UNCHANGED <<cache, queries, session_state, df, category_filter,
                   month_filter, df_filtered, bar_chart, line_chart,
                   df_top_streets, geocode_result, requests, coords, markers,
                   frames, error, exception>>

\* app.py:96-102: the API key is read; a missing key is reported with st.error
\* and the run stops
LoadMapsKey ==
    /\ pc = "maps_key"
    /\ \E present \in BOOLEAN :
          IF present
          THEN /\ pc' = "build_frame"
               /\ error' = error
          ELSE /\ pc' = "stopped"
               /\ error' = Some("Google Maps API Key not found in secrets")
    /\ UNCHANGED <<cache, queries, session_state, df, category_filter,
                   month_filter, df_filtered, rendered, bar_chart, line_chart,
                   top_streets, df_top_streets, geocode_result, requests,
                   coords, markers, frames, exception>>

\* app.py:115-118
BuildTopStreetsFrame ==
    /\ pc = "build_frame"
    /\ df_top_streets' = TopStreetsFrame(top_streets, df_filtered)
    /\ pc' = "geocode"
    /\ UNCHANGED <<cache, queries, session_state, df, category_filter,
                   month_filter, df_filtered, rendered, bar_chart, line_chart,
                   top_streets, geocode_result, requests, coords, markers,
                   frames, error, exception>>

\* a bug Geocode could have: a failed request is sent a second time
GeocodeRetrying ==
    /\ pc = "geocode"
    /\ Len(coords) < Len(df_top_streets)
    /\ \E answer \in GeocodeAnswers, second \in GeocodeAnswers :
          LET address == Address(df_top_streets[Len(coords) + 1].Street_Name)
          IN  IF answer.raised
              THEN /\ geocode_result' = Some(second)
                   /\ requests' = requests \o <<address, address>>
                   /\ coords' = Append(coords, GetLatLon(second))
              ELSE /\ geocode_result' = Some(answer)
                   /\ requests' = Append(requests, address)
                   /\ coords' = Append(coords, GetLatLon(answer))
    /\ UNCHANGED <<pc, cache, queries, session_state, df, category_filter,
                   month_filter, df_filtered, rendered, bar_chart, line_chart,
                   top_streets, df_top_streets, markers, frames, error,
                   exception>>

\* app.py:104-113 as called by Series.apply (app.py:119) for the next street
\* of the frame: one request, and the pair get_lat_lon returns
Geocode ==
    /\ pc = "geocode"
    /\ Len(coords) < Len(df_top_streets)
    /\ \E answer \in GeocodeAnswers :
          /\ geocode_result' = Some(answer)
          /\ requests' = Append(requests,
                 Address(df_top_streets[Len(coords) + 1].Street_Name))
          /\ coords' = Append(coords, GetLatLon(answer))
    /\ UNCHANGED <<pc, cache, queries, session_state, df, category_filter,
                   month_filter, df_filtered, rendered, bar_chart, line_chart,
                   top_streets, df_top_streets, markers, frames, error,
                   exception>>

\* app.py:119-121, once apply has visited every street: the two columns are
\* set from what apply returns.  Over an empty Street_Name column apply
\* returns an empty Series, and setting two columns from it raises
\* ValueError("Columns must be same length as key").
AssignCoords ==
    /\ pc = "geocode"
    /\ Len(coords) = Len(df_top_streets)
    /\ geocode_result' = None
    /\ IF Len(df_top_streets) = 0
       THEN /\ exception' = Some("ValueError")
            /\ pc' = "failed"
            /\ UNCHANGED df_top_streets
       ELSE /\ df_top_streets' = WithCoords(df_top_streets, coords)
            /\ pc' = "dropna"
            /\ exception' = exception
    /\ UNCHANGED <<cache, queries, session_state, df, category_filter,
                   month_filter, df_filtered, rendered, bar_chart, line_chart,
                   top_streets, requests, coords, markers, frames, error>>

\* app.py:122
DropMissing ==
    /\ pc = "dropna"
    /\ df_top_streets' = DropNa(df_top_streets)
    /\ pc' = "map"
    /\ UNCHANGED <<cache, queries, session_state, df, category_filter,
                   month_filter, df_filtered, rendered, bar_chart, line_chart,
                   top_streets, geocode_result, requests, coords, markers,
                   frames, error, exception>>

\* app.py:125-133: one marker per row of df_top_streets
RenderMap ==
    /\ pc = "map"
    /\ markers' = [k \in 1..Len(df_top_streets) |-> Marker(df_top_streets[k])]
    /\ rendered' = Append(rendered, "map")
    /\ pc' = "reports"
    /\ UNCHANGED <<cache, queries, session_state, df, category_filter,
                   month_filter, df_filtered, bar_chart, line_chart,
                   top_streets, df_top_streets, geocode_result, requests,
                   coords, frames, error, exception>>

\* app.py:138-149: one heading and one iframe per entry of looker_reports
RenderReports ==
    /\ pc = "reports"
    /\ frames' = looker_reports
    /\ rendered' = Append(rendered, "reports")
    /\ pc' = "done"
    /\ UNCHANGED <<cache, queries, session_state, df, category_filter,
                   month_filter, df_filtered, bar_chart, line_chart,
                   top_streets, df_top_streets, geocode_result, requests,
                   coords, markers, error, exception>>

-----------------------------------------------------------------------------
(* Reruns *)

RunEnded == pc \in {"done", "stopped", "failed"}

\* the multiselects were on the page in the run that just ended
SidebarShown == \E i \in 1..Len(rendered) : rendered[i] = "sidebar"

\* the script is run again with no widget changed; the state of a widget the
\* ended run did not show is forgotten
Rerun ==
    /\ RunEnded
    /\ session_state' = IF SidebarShown THEN session_state ELSE None
    /\ FreshRun
    /\ UNCHANGED <<cache, queries>>

\* the user changes the selection of the multiselects, which reruns the script
ChangeFilters ==
    /\ RunEnded
    /\ SidebarShown
    /\ \E cats \in SUBSET CategoryOptions(df), months \in SUBSET MonthOptions(df) :
          session_state' = Some([category |-> cats, month |-> months])
    /\ FreshRun
    /\ UNCHANGED <<cache, queries>>

Next ==
    \/ LoadCredentials
    \/ LoadData
    \/ Filters
    \/ RenderTitle
    \/ RenderBarChart
    \/ RenderLineChart
    \/ ComputeTopStreets
    \/ LoadMapsKey
    \/ BuildTopStreetsFrame
    \/ Geocode
    \/ AssignCoords
    \/ DropMissing
    \/ RenderMap
    \/ RenderReports
    \/ Rerun
    \/ ChangeFilters

Spec == Init /\ [][Next]_vars

-----------------------------------------------------------------------------
(* Properties *)

DashboardSections == {"title", "bar_chart", "line_chart", "map", "reports"}

\* the filter has been applied in this run
FilterApplied == SidebarShown

DefaultSelection ==
    /\ category_filter = CategoryOptions(df)
    /\ month_filter = MonthOptions(df)

\* the street names of a table, and how often each occurs
StreetsOf(table) == { table[i].Street_Name : i \in 1..Len(table) } \ {NULL}
IncidentsOn(table, street) ==
    Cardinality({ i \in 1..Len(table) : table[i].Street_Name = street })

\* the enrichment of this run is over: every street was looked up and the
\* rows with missing coordinates are gone
Enriched == pc \in {"map", "reports", "done"}

\* C1: a run stopped by a credential failure (service-account descriptor or
\* API key) has reported an error and rendered none of the dashboard sections
C1_FailFastNoPartialRendering ==
    pc = "stopped" =>
        /\ error # None
        /\ \A i \in 1..Len(rendered) : rendered[i] \notin DashboardSections

\* C2: the filtered view holds exactly the rows of the full table whose
\* category is selected and whose month string is selected, each once; an
\* empty category or month selection gives the empty view
C2_FilterExact ==
    FilterApplied =>
        /\ \A i \in 1..Len(df) :
              (/\ df[i].Final_Incident_Category \in category_filter
               /\ PeriodStr(df[i].Month) \in month_filter)
              <=> (\E k \in 1..Len(df_filtered) : df_filtered[k] = df[i])
        /\ \A k \in 1..Len(df_filtered) :
              \E i \in 1..Len(df) : df_filtered[k] = df[i]
        /\ \A k, l \in 1..Len(df_filtered) :
              df_filtered[k].index = df_filtered[l].index => k = l
        /\ (category_filter = {} \/ month_filter = {}) => df_filtered = <<>>

C2_Witness ==
    /\ FilterApplied
    /\ category_filter # {} /\ category_filter # CategoryOptions(df)
    /\ month_filter # {} /\ month_filter # MonthOptions(df)
    /\ Len(df_filtered) > 1
    /\ Len(df_filtered) < Len(df)

\* C3: a run whose selection leaves the filtered view of a loaded table
\* empty, with credentials, API key and data load in order, completes every
\* section in order: no bars, no plotted series, no geocoding request, no
\* marker, and the report frames
C3_EmptyViewCompletes ==
    (FilterApplied /\ df # <<>> /\ df_filtered = <<>> /\ RunEnded /\ error = None) =>
        /\ pc = "done"
        /\ exception = None
        /\ rendered = <<"sidebar", "title", "bar_chart", "line_chart",
                        "top_streets_header", "map", "reports">>
        /\ bar_chart = <<>>
        /\ line_chart = <<>>
        /\ requests = <<>>
        /\ markers = <<>>
        /\ frames = looker_reports

\* C4: once load_data() has stored a table, no step issues another warehouse
\* query or changes the stored table, and every later load returns it
C4_LoadCachedOnce ==
    [][/\ cache # None => (queries' = queries /\ cache' = cache)
       /\ (pc = "load_data" /\ pc' = "filters") => df' = cache'[1]]_vars

\* a later run (the widgets already have state) has loaded from the cache
C4_Witness ==
    /\ pc = "title"
    /\ cache # None
    /\ ~DefaultSelection
    /\ queries = 1
    /\ Len(df) > 0

\* C5: before the lookups the aggregate has min(5, distinct streets of the
\* view) records, of distinct streets of the view, in non-increasing order of
\* count, and no street left out has more incidents than one included
C5_TopStreetsInvariant ==
    (pc = "geocode" /\ coords = <<>>) =>
        LET included == { df_top_streets[k].Street_Name :
                              k \in 1..Len(df_top_streets) }
        IN  /\ Len(df_top_streets) <= 5
            /\ Len(df_top_streets) = Min(5, Cardinality(StreetsOf(df_filtered)))
            /\ Cardinality(included) = Len(df_top_streets)
            /\ included \subseteq StreetsOf(df_filtered)
            /\ \A k \in 1..(Len(df_top_streets) - 1) :
                  df_top_streets[k].Incident_Count
                      >= df_top_streets[k + 1].Incident_Count
            /\ \A out \in StreetsOf(df_filtered) \ included : \A kept \in included :
                  IncidentsOn(df_filtered, out) <= IncidentsOn(df_filtered, kept)

C5_Witness ==
    /\ pc = "geocode" /\ coords = <<>>
    /\ Len(df_top_streets) = 5
    /\ Cardinality(StreetsOf(df_filtered)) > 5
    /\ df_top_streets[1].Incident_Count > df_top_streets[5].Incident_Count

\* C6: each lookup yields the first candidate's latitude and longitude, or
\* both missing when there is no candidate or the request raised; after
\* enrichment the result is exactly the top streets with coordinates, each
\* with both, the others dropped; no run that looked a street up is aborted
\* or shows an error
C6_EnrichmentTotal ==
    /\ \A k \in 1..Len(coords) : (coords[k][1] = None) <=> (coords[k][2] = None)
    /\ (pc = "geocode" /\ geocode_result # None) =>
          LET answer == geocode_result[1]
              pair   == coords[Len(coords)]
          IN  IF ~answer.raised /\ Len(answer.candidates) > 0
              THEN pair = <<Some(answer.candidates[1].lat),
                            Some(answer.candidates[1].lng)>>
              ELSE pair = <<None, None>>
    /\ Enriched =>
          LET resolved == Ascending({ k \in 1..Len(top_streets) :
                                         coords[k][1] # None })
          IN  /\ Len(df_top_streets) = Len(resolved)
              /\ Len(df_top_streets) <= 5
              /\ \A n \in 1..Len(resolved) :
                    /\ df_top_streets[n].Street_Name = top_streets[resolved[n]]
                    /\ df_top_streets[n].Latitude = coords[resolved[n]][1]
                    /\ df_top_streets[n].Longitude = coords[resolved[n]][2]
                    /\ df_top_streets[n].Latitude # None
                    /\ df_top_streets[n].Longitude # None
    /\ requests # <<>> => (pc # "failed" /\ error = None /\ exception = None)

C6_Witness ==
    /\ pc = "done"
    /\ Len(top_streets) = 5
    /\ Len(df_top_streets) = 3
    /\ coords[1][1] = None
    /\ coords[2][1] # None

\* C7: in every run the requests sent so far are the addresses of the streets
\* visited so far, one each, in rank order; when enrichment is over there is
\* one per top street (5 when the view has at least 5 streets)
C7_OneRequestPerStreetPerRun ==
    /\ Len(requests) = Len(coords)
    /\ Len(requests) <= Len(top_streets)
    /\ \A k \in 1..Len(requests) : requests[k] = Address(top_streets[k])
    /\ Enriched =>
          /\ Len(requests) = Len(top_streets)
          /\ Cardinality(StreetsOf(df_filtered)) >= 5 => Len(requests) = 5

\* a run after a filter change has sent all 5 requests
C7_Witness ==
    /\ pc = "done"
    /\ ~DefaultSelection
    /\ Len(requests) = 5

\* C8: the frame's streets are the top streets in the same order, and every
\* record's Incident_Count is the number of rows of the filtered view on its
\* street
C8_CountsMatchStreets ==
    /\ pc = "geocode" =>
          /\ Len(df_top_streets) = Len(top_streets)
          /\ \A k \in 1..Len(top_streets) :
                df_top_streets[k].Street_Name = top_streets[k]
    /\ \A k \in 1..Len(df_top_streets) :
          df_top_streets[k].Incident_Count
              = IncidentsOn(df_filtered, df_top_streets[k].Street_Name)

C8_Witness ==
    /\ pc = "done"
    /\ Len(df_top_streets) >= 3
    /\ df_top_streets[1].Incident_Count > df_top_streets[3].Incident_Count

\* C9: on a table with street names, every run with credentials, API key
\* and data load in order ends with the same 4 report frames in the same
\* order, whatever the selection
C9_ReportsIndependentOfFilters ==
    (FilterApplied /\ StreetsOf(df) # {} /\ RunEnded /\ error = None) =>
        frames = looker_reports

\* C10: with every category and every month selected the filtered view is the
\* full table, and the full table stays the loaded one to the end of the run
C10_DefaultSelectionKeepsAll ==
    FilterApplied =>
        /\ df = cache[1]
        /\ DefaultSelection => df_filtered = df

C10_Witness ==
    /\ pc = "done"
    /\ DefaultSelection
    /\ Len(df) > 2
    /\ Cardinality(category_filter) > 1
    /\ Cardinality(month_filter) > 1

=============================================================================
